---- MODULE Spec2Model ----
(***************************************************************************)
(* StackIt: the entity repository (DatabaseStorage) and the Express route  *)
(* handlers that drive it, over the relational schema of shared/schema.ts. *)
(*                                                                         *)
(* The database is one record `db` of tables; a table is a function from   *)
(* the serial ids of its rows to the rows.  A nullable integer column      *)
(* holds 0 for NULL (serial ids start at 1).  Foreign keys declared with   *)
(* references() are enforced by the substrate with the default NO ACTION:  *)
(* a statement that would leave a dangling reference fails and changes     *)
(* nothing.  A request is a process `procs[p]`; handlers whose statements  *)
(* can interleave with other requests are modelled statement by statement. *)
(***************************************************************************)
EXTENDS Integers, FiniteSets, Sequences, TLC

VARIABLES db, procs, last, started

vars == <<db, procs, last, started>>

\* ------------------------------------------------------------------ bounds
NUsers == 2
MaxQuestions == 2
MaxAnswers == 2
MaxVotes == 2
MaxRequests == 3
MaxNotifications == 2
MaxPosts == 1
MaxPostLikes == 2
MaxPostComments == 1
MaxAdminLogs == 1
MaxAdminActions == 2
MaxViews == 2
NProcs == 2

UserIds == 1..NUsers
Procs == 1..NProcs
VoteTypes == {"up", "down"}

\* ------------------------------------------------------------ the schema
EmptyTable == [i \in {} |-> 0]

Remove(t, S) == [i \in (DOMAIN t) \ S |-> t[i]]

Insert(t, id, row) == [i \in (DOMAIN t) \cup {id} |-> IF i = id THEN row ELSE t[i]]

\* The database after the users have registered: every other table empty.
EmptyDb ==
  [ users         |-> [u \in UserIds |-> [isAdmin |-> (u = 1)]],
    questions     |-> EmptyTable,
    answers       |-> EmptyTable,
    votes         |-> EmptyTable,
    notifications |-> EmptyTable,
    posts         |-> EmptyTable,
    postLikes     |-> EmptyTable,
    postComments  |-> EmptyTable,
    adminLogs     |-> EmptyTable,
    seq           |-> [questions |-> 1, answers |-> 1, votes |-> 1,
                       notifications |-> 1, posts |-> 1, postLikes |-> 1,
                       postComments |-> 1, adminLogs |-> 1] ]

\* The outcome of a statement: the database it leaves, and whether it threw.
Ok(d) == [ok |-> TRUE, db |-> d]
Threw(d) == [ok |-> FALSE, db |-> d]

\* ------------------------------------------------- foreign keys (NO ACTION)
\* Rows that reference one of the answers S.
RefsAnswers(d, S) ==
  \/ \E v \in DOMAIN d.votes : d.votes[v].answerId \in S
  \/ \E n \in DOMAIN d.notifications : d.notifications[n].answerId \in S

\* Rows that reference one of the questions S.
RefsQuestions(d, S) ==
  \/ \E a \in DOMAIN d.answers : d.answers[a].questionId \in S
  \/ \E v \in DOMAIN d.votes : d.votes[v].questionId \in S
  \/ \E n \in DOMAIN d.notifications : d.notifications[n].questionId \in S

\* Rows that reference one of the posts S.
RefsPosts(d, S) ==
  \/ \E c \in DOMAIN d.postComments : d.postComments[c].postId \in S
  \/ \E l \in DOMAIN d.postLikes : d.postLikes[l].postId \in S

\* Rows that reference one of the users S.
RefsUsers(d, S) ==
  \/ \E q \in DOMAIN d.questions : d.questions[q].authorId \in S
  \/ \E a \in DOMAIN d.answers : d.answers[a].authorId \in S
  \/ \E v \in DOMAIN d.votes : d.votes[v].userId \in S
  \/ \E n \in DOMAIN d.notifications : d.notifications[n].userId \in S
  \/ \E p \in DOMAIN d.posts : d.posts[p].authorId \in S
  \/ \E c \in DOMAIN d.postComments : d.postComments[c].authorId \in S
  \/ \E l \in DOMAIN d.postLikes : d.postLikes[l].userId \in S
  \/ \E g \in DOMAIN d.adminLogs : d.adminLogs[g].adminId \in S

\* DELETE FROM answers WHERE id IN S
DeleteAnswers(d, S) ==
  IF RefsAnswers(d, S \cap DOMAIN d.answers) THEN Threw(d)
  ELSE Ok([d EXCEPT !.answers = Remove(@, S)])

\* A DELETE of questions on a substrate that does not check references.
DeleteQuestionsUnchecked(d, S) == Ok([d EXCEPT !.questions = Remove(@, S)])

\* DELETE FROM questions WHERE id IN S
DeleteQuestions(d, S) ==
  IF RefsQuestions(d, S \cap DOMAIN d.questions) THEN Threw(d)
  ELSE Ok([d EXCEPT !.questions = Remove(@, S)])

\* DELETE FROM posts WHERE id IN S
DeletePosts(d, S) ==
  IF RefsPosts(d, S \cap DOMAIN d.posts) THEN Threw(d)
  ELSE Ok([d EXCEPT !.posts = Remove(@, S)])

\* DELETE FROM users WHERE id IN S
DeleteUsers(d, S) ==
  IF RefsUsers(d, S \cap DOMAIN d.users) THEN Threw(d)
  ELSE Ok([d EXCEPT !.users = Remove(@, S)])

\* ------------------------------------------------ repository: questions
\* INSERT INTO questions: votes and views default to 0, acceptedAnswerId to NULL.
createQuestion(d, author) ==
  IF author \notin DOMAIN d.users THEN Threw(d)
  ELSE Ok([d EXCEPT
         !.questions = Insert(@, d.seq.questions,
            [authorId |-> author, votes |-> 0, views |-> 0, acceptedAnswerId |-> 0]),
         !.seq.questions = @ + 1])

\* DELETE FROM questions WHERE id = :id  (the only statement of deleteQuestion)
deleteQuestion(d, id) == DeleteQuestions(d, {id})

\* ------------------------------------------------- repository: answers
\* INSERT INTO answers: votes defaults to 0, isAccepted to false.
createAnswer(d, q, author) ==
  IF author \notin DOMAIN d.users \/ q \notin DOMAIN d.questions THEN Threw(d)
  ELSE Ok([d EXCEPT
         !.answers = Insert(@, d.seq.answers,
            [questionId |-> q, authorId |-> author, votes |-> 0, isAccepted |-> FALSE]),
         !.seq.answers = @ + 1])

deleteAnswer(d, id) == DeleteAnswers(d, {id})

\* acceptAnswer, first statement: UPDATE answers SET isAccepted = false WHERE questionId = :q
acceptClear(d, q) ==
  [d EXCEPT !.answers =
     [i \in DOMAIN @ |-> IF @[i].questionId = q
                         THEN [@[i] EXCEPT !.isAccepted = FALSE] ELSE @[i]]]

\* acceptAnswer, second statement: UPDATE answers SET isAccepted = true WHERE id = :a
acceptSet(d, a) ==
  [d EXCEPT !.answers =
     [i \in DOMAIN @ |-> IF i = a THEN [@[i] EXCEPT !.isAccepted = TRUE] ELSE @[i]]]

\* acceptAnswer, third statement: UPDATE questions SET acceptedAnswerId = :a WHERE id = :q
acceptPoint(d, q, a) ==
  [d EXCEPT !.questions =
     [i \in DOMAIN @ |-> IF i = q THEN [@[i] EXCEPT !.acceptedAnswerId = a] ELSE @[i]]]

\* ------------------------------------------ repository: reading answers
\* The rows S in the order of a query's ORDER BY, given as a strict total
\* order on the row ids.
OrderedBy(S, prec) ==
  CHOOSE s \in [1..Cardinality(S) -> S] :
    \A i, j \in 1..Cardinality(S) : i < j => <<s[i], s[j]>> \in prec

\* getQuestion's answers: ORDER BY createdAt DESC.  Rows are created one
\* request after another, so a later row has the larger id and createdAt.
getQuestionAnswers(d, q) ==
  LET rows == {a \in DOMAIN d.answers : d.answers[a].questionId = q}
  IN OrderedBy(rows, {pr \in rows \X rows : pr[1] > pr[2]})

\* getAnswersByQuestionId: ORDER BY isAccepted DESC, votes DESC, createdAt ASC.
getAnswersByQuestionId(d, q) ==
  LET ans == d.answers
      rows == {a \in DOMAIN ans : ans[a].questionId = q}
  IN OrderedBy(rows,
       {pr \in rows \X rows :
          \/ ans[pr[1]].isAccepted /\ ~ans[pr[2]].isAccepted
          \/ /\ ans[pr[1]].isAccepted = ans[pr[2]].isAccepted
             /\ \/ ans[pr[1]].votes > ans[pr[2]].votes
                \/ ans[pr[1]].votes = ans[pr[2]].votes /\ pr[1] < pr[2]})

\* --------------------------------------- repository: notifications, logs
createNotification(d, userId, type, q, a) ==
  IF \/ userId \notin DOMAIN d.users
     \/ (q # 0 /\ q \notin DOMAIN d.questions)
     \/ (a # 0 /\ a \notin DOMAIN d.answers)
  THEN Threw(d)
  ELSE Ok([d EXCEPT
         !.notifications = Insert(@, d.seq.notifications,
            [userId |-> userId, type |-> type, questionId |-> q, answerId |-> a]),
         !.seq.notifications = @ + 1])

createAdminLog(d, adminId, action, targetId) ==
  IF adminId \notin DOMAIN d.users THEN Threw(d)
  ELSE Ok([d EXCEPT
         !.adminLogs = Insert(@, d.seq.adminLogs,
            [adminId |-> adminId, action |-> action, targetId |-> targetId]),
         !.seq.adminLogs = @ + 1])

\* The isAdmin middleware: the session user's row, read afresh, has isAdmin set.
isAdmin(d, u) == u \in DOMAIN d.users /\ d.users[u].isAdmin

\* ---------------------------------------------------------- the requests
IdleProc ==
  [pc |-> "idle", op |-> "none", user |-> 0, q |-> 0, a |-> 0, vt |-> "none",
   ev |-> 0, tq |-> 0, ta |-> 0, phase |-> "none",
   up |-> 0, down |-> 0, snap |-> EmptyTable, out |-> "none",
   target |-> 0, body |-> "absent"]

\* What is recorded of the last request that ended: the request, its outcome,
\* and (for a vote on one target) what the target looked like before it.
NoRequest ==
  [op |-> "none", user |-> 0, q |-> 0, a |-> 0, vt |-> "none", out |-> "none",
   before |-> 0, during |-> 0, tally |-> 0, sync |-> FALSE,
   twice |-> FALSE, before0 |-> 0, tally0 |-> 0, sync0 |-> FALSE,
   rows |-> 0, rows0 |-> 0, target |-> 0, owned |-> {}, res |-> EmptyTable,
   fault |-> FALSE, overlap |-> FALSE]

\* A request that was refused (404, 403) is recorded without its arguments.
Ended(op, u, q, a, out) ==
  IF out \in {"notFound", "forbidden"}
  THEN [NoRequest EXCEPT !.op = op, !.out = out]
  ELSE [NoRequest EXCEPT !.op = op, !.user = u, !.q = q, !.a = a, !.out = out]

AllIdle == \A p \in Procs : procs[p].pc = "idle"

Finish(p, summary) ==
  /\ procs' = [procs EXCEPT ![p] = IdleProc]
  /\ last' = summary
  /\ UNCHANGED started

Init ==
  /\ db = EmptyDb
  /\ procs = [p \in Procs |-> IdleProc]
  /\ last = NoRequest
  /\ started = 0

\* ------------------------------------------------ POST /api/questions
AskQuestion(u) ==
  /\ AllIdle
  /\ db.seq.questions <= MaxQuestions
  /\ LET r == createQuestion(db, u) IN
       /\ db' = r.db
       /\ last' = Ended("askQuestion", u, 0, 0, IF r.ok THEN "ok" ELSE "error")
  /\ UNCHANGED <<procs, started>>

\* ------------------------------------- POST /api/questions/:id/answers
\* createAnswer, then getQuestion and, when the answerer is not the question's
\* author, createNotification for the author.  (postAnswerAlwaysNotify is the
\* handler without the comparison of the two users.)
postAnswerAlwaysNotify(d, u, q) ==
  LET r == createAnswer(d, q, u) IN
  IF ~r.ok THEN r
  ELSE createNotification(r.db, r.db.questions[q].authorId, "question_answered", q, d.seq.answers)

postAnswer(d, u, q) ==
  LET r == createAnswer(d, q, u) IN
  IF ~r.ok THEN r
  ELSE IF q \in DOMAIN r.db.questions /\ r.db.questions[q].authorId # u
       THEN createNotification(r.db, r.db.questions[q].authorId,
                               "question_answered", q, d.seq.answers)
       ELSE r

\* The request run to its end, whatever else is in flight.
PostAnswerAmid(u, q) ==
  /\ db.seq.answers <= MaxAnswers
  /\ (q \in DOMAIN db.questions /\ db.questions[q].authorId # u)
       => db.seq.notifications <= MaxNotifications
  /\ LET r == postAnswer(db, u, q) IN
       /\ db' = r.db
       /\ last' = Ended("postAnswer", u, q, db.seq.answers, IF r.ok THEN "ok" ELSE "error")
  /\ UNCHANGED <<procs, started>>

PostAnswer(u, q) == AllIdle /\ PostAnswerAmid(u, q)

\* ------------------------------------------ repository: reading questions
\* getQuestion: its queries run inside try/catch, and the catch returns
\* undefined; `fails` says whether the substrate failed one of the queries.
getQuestion(d, id, fails) ==
  IF fails THEN "undefined"
  ELSE IF id \in DOMAIN d.questions THEN "question" ELSE "undefined"

\* getQuestions without filters: the ids of the rows it returns; its catch
\* returns the empty list.
getQuestions(d, fails) == IF fails THEN {} ELSE DOMAIN d.questions

\* An UPDATE of views that changes no row.
incrementViewCountKept(d, id) == d

\* UPDATE questions SET views = views + 1 WHERE id = :id
incrementViewCount(d, id) ==
  [d EXCEPT !.questions =
     [i \in DOMAIN @ |-> IF i = id THEN [@[i] EXCEPT !.views = @ + 1] ELSE @[i]]]

\* ----------------------------------------------- GET /api/questions/:id
ViewQuestion(id, fails) ==
  /\ AllIdle
  /\ id \in DOMAIN db.questions => db.questions[id].views < MaxViews
  /\ IF getQuestion(db, id, fails) = "undefined"
     THEN /\ UNCHANGED db
          /\ last' = [NoRequest EXCEPT !.op = "viewQuestion", !.q = id, !.fault = fails,
                                       !.out = "notFound"]
     ELSE /\ db' = incrementViewCount(db, id)
          /\ last' = [NoRequest EXCEPT !.op = "viewQuestion", !.q = id, !.fault = fails,
                                       !.out = "ok"]
  /\ UNCHANGED <<procs, started>>

\* ------------------------- GET /api/questions/:id, among other requests
\* What the request leaves on record; the record keeps, for each question,
\* how many requests so far were answered with it.
ViewEnded(id, out) ==
  [NoRequest EXCEPT !.op = "viewQuestion", !.q = id, !.out = out,
     !.res = IF out = "ok"
             THEN [i \in DOMAIN last.res \cup {id} |->
                     IF i = id
                     THEN (IF id \in DOMAIN last.res THEN last.res[id] ELSE 0) + 1
                     ELSE last.res[i]]
             ELSE last.res]

ViewStart(p, id) ==
  /\ procs[p].pc = "idle"
  /\ started < MaxRequests
  /\ started' = started + 1
  /\ procs' = [procs EXCEPT ![p] = [IdleProc EXCEPT !.pc = "viewGet", !.op = "view", !.q = id]]
  /\ UNCHANGED <<db, last>>

\* const question = await storage.getQuestion(id); if (!question) 404
ViewGet(p) ==
  /\ procs[p].pc = "viewGet"
  /\ IF getQuestion(db, procs[p].q, FALSE) = "undefined"
     THEN Finish(p, ViewEnded(procs[p].q, "notFound"))
     ELSE /\ procs' = [procs EXCEPT ![p].pc = "viewIncrement"]
          /\ UNCHANGED <<last, started>>
  /\ UNCHANGED db

\* await storage.incrementViewCount(id); res.json(question)
ViewIncrement(p) ==
  /\ procs[p].pc = "viewIncrement"
  /\ db' = incrementViewCount(db, procs[p].q)
  /\ Finish(p, ViewEnded(procs[p].q, "ok"))

\* --------------------------------------------------- GET /api/questions
ListQuestions(fails) ==
  /\ AllIdle
  /\ last' = [NoRequest EXCEPT !.op = "listQuestions", !.fault = fails,
                 !.out = IF getQuestions(db, fails) = {} THEN "empty" ELSE "ok"]
  /\ UNCHANGED <<db, procs, started>>

\* ------------------------------ GET /api/questions?filter=unanswered
\* getQuestions({filter: "unanswered"}), statement by statement.
ListStart(p) ==
  /\ procs[p].pc = "idle"
  /\ started < MaxRequests
  /\ started' = started + 1
  /\ procs' = [procs EXCEPT ![p] = [IdleProc EXCEPT !.pc = "listQuery", !.op = "list"]]
  /\ UNCHANGED <<db, last>>

\* The list query: the questions for which NOT EXISTS (an answer to them).
ListQuery(p) ==
  /\ procs[p].pc = "listQuery"
  /\ procs' = [procs EXCEPT
        ![p].pc = "listCount",
        ![p].snap = [q \in {x \in DOMAIN db.questions :
                              ~\E a \in DOMAIN db.answers : db.answers[a].questionId = x}
                     |-> 0]]
  /\ UNCHANGED <<db, last, started>>

\* The count query: for each listed question, its answers now; the result
\* gives each question its _count.answers.
ListCount(p) ==
  /\ procs[p].pc = "listCount"
  /\ Finish(p, [NoRequest EXCEPT
        !.op = "listUnanswered", !.out = "ok",
        !.res = [q \in DOMAIN procs[p].snap |->
                   Cardinality({a \in DOMAIN db.answers : db.answers[a].questionId = q})]])
  /\ UNCHANGED db

\* ------------- POST /api/questions/:questionId/answers/:answerId/accept
\* The answers of question q as getQuestion returns them: id -> authorId.
answersOf(d, q) ==
  [i \in {x \in DOMAIN d.answers : d.answers[x].questionId = q} |-> d.answers[i].authorId]

AcceptStart(p, u, q, a) ==
  /\ procs[p].pc = "idle"
  /\ db.seq.notifications <= MaxNotifications
  /\ procs' = [procs EXCEPT ![p] =
        [IdleProc EXCEPT !.pc = "acceptGet", !.op = "accept", !.user = u, !.q = q, !.a = a]]
  /\ UNCHANGED <<db, last, started>>

\* getQuestion, the 404 and the 403.
AcceptGet(p) ==
  /\ procs[p].pc = "acceptGet"
  /\ LET r == procs[p] IN
       IF r.q \notin DOMAIN db.questions
       THEN Finish(p, Ended("accept", r.user, r.q, r.a, "notFound"))
       ELSE IF db.questions[r.q].authorId # r.user
       THEN Finish(p, Ended("accept", r.user, r.q, r.a, "forbidden"))
       ELSE /\ procs' = [procs EXCEPT ![p].pc = "acceptClear",
                                      ![p].snap = answersOf(db, r.q)]
            /\ UNCHANGED <<last, started>>
  /\ UNCHANGED <<db, started>>

AcceptClear(p) ==
  /\ procs[p].pc = "acceptClear"
  /\ db' = acceptClear(db, procs[p].q)
  /\ procs' = [procs EXCEPT ![p].pc = "acceptSet"]
  /\ UNCHANGED <<last, started>>

AcceptSet(p) ==
  /\ procs[p].pc = "acceptSet"
  /\ db' = acceptSet(db, procs[p].a)
  /\ procs' = [procs EXCEPT ![p].pc = "acceptPoint"]
  /\ UNCHANGED <<last, started>>

AcceptPoint(p) ==
  /\ procs[p].pc = "acceptPoint"
  /\ db' = acceptPoint(db, procs[p].q, procs[p].a)
  /\ procs' = [procs EXCEPT ![p].pc = "acceptNotify"]
  /\ UNCHANGED <<last, started>>

\* The answer is looked up in the answers getQuestion returned; its author is
\* notified unless that is the accepting user.
AcceptNotify(p) ==
  /\ procs[p].pc = "acceptNotify"
  /\ LET r == procs[p]
         n == IF r.a \in DOMAIN r.snap /\ r.snap[r.a] # r.user
              THEN createNotification(db, r.snap[r.a], "answer_accepted", r.q, r.a)
              ELSE Ok(db)
     IN /\ db' = n.db
        /\ Finish(p, Ended("accept", r.user, r.q, r.a, IF n.ok THEN "ok" ELSE "error"))

\* acceptAnswer ends with an exception after its first or its second write,
\* the substrate failing the next one: the route answers 500 and the writes
\* already made stay (no transaction).
AcceptFail(p) ==
  /\ procs[p].pc \in {"acceptSet", "acceptPoint"}
  /\ Finish(p, Ended("accept", procs[p].user, procs[p].q, procs[p].a, "error"))
  /\ UNCHANGED db

\* ---------------------------------------------- PUT /api/questions/:id
\* updateQuestion: UPDATE questions SET ...question WHERE id = :id.  Of the
\* body the model keeps authorId (0: the body has none), which
\* insertQuestionSchema.partial() lets through.
updateQuestion(d, id, author) ==
  IF author = 0 \/ id \notin DOMAIN d.questions THEN Ok(d)
  ELSE IF author \notin DOMAIN d.users THEN Threw(d)
  ELSE Ok([d EXCEPT !.questions[id].authorId = author])

UpdateQuestion(u, q, author) ==
  /\ AllIdle
  /\ IF q \notin DOMAIN db.questions
     THEN /\ last' = Ended("updateQuestion", u, q, 0, "notFound")
          /\ UNCHANGED db
     ELSE IF db.questions[q].authorId # u
     THEN /\ last' = Ended("updateQuestion", u, q, 0, "forbidden")
          /\ UNCHANGED db
     ELSE LET r == updateQuestion(db, q, author) IN
          /\ db' = r.db
          /\ last' = Ended("updateQuestion", u, q, 0, IF r.ok THEN "ok" ELSE "error")
  /\ UNCHANGED <<procs, started>>

\* ------------------------------------------------ PUT /api/answers/:id
\* updateAnswer: UPDATE answers SET ...answer WHERE id = :id.  The model keeps
\* no content of an answer: the call leaves its rows as they are.
updateAnswer(d, id) == Ok(d)

\* The answer is looked for among getAnswersByQuestionId(0), the answers
\* whose questionId is 0.
UpdateAnswer(u, a) ==
  /\ AllIdle
  /\ LET existingAnswer == getAnswersByQuestionId(db, 0)
         found == \E i \in DOMAIN existingAnswer : existingAnswer[i] = a
     IN IF ~found
        THEN /\ last' = Ended("updateAnswer", u, 0, a, "notFound")
             /\ UNCHANGED db
        ELSE IF db.answers[a].authorId # u
        THEN /\ last' = Ended("updateAnswer", u, 0, a, "forbidden")
             /\ UNCHANGED db
        ELSE LET r == updateAnswer(db, a) IN
             /\ db' = r.db
             /\ last' = Ended("updateAnswer", u, 0, a, IF r.ok THEN "ok" ELSE "error")
  /\ UNCHANGED <<procs, started>>

\* ------------------------------------------- DELETE /api/questions/:id
DeleteQuestion(u, q) ==
  /\ AllIdle
  /\ IF q \notin DOMAIN db.questions
     THEN /\ last' = Ended("deleteQuestion", u, q, 0, "notFound")
          /\ UNCHANGED <<db, started>>
     ELSE IF db.questions[q].authorId # u
     THEN /\ last' = Ended("deleteQuestion", u, q, 0, "forbidden")
          /\ UNCHANGED <<db, started>>
     ELSE LET r == deleteQuestion(db, q) IN
          /\ db' = r.db
          /\ last' = Ended("deleteQuestion", u, q, 0, IF r.ok THEN "ok" ELSE "error")
  /\ UNCHANGED <<procs, started>>

\* ------------------------------------- DELETE /api/admin/questions/:id
\* What an admin route does after the isAdmin middleware let it through:
\* the repository call and, when it did not throw, the admin log entry.
\* The route inside a transaction: a failure restores the database d.
adminDoRestoring(d, admin, r, action, target) ==
  IF ~r.ok THEN Threw(d) ELSE createAdminLog(r.db, admin, action, target)

adminDo(d, admin, r, action, target) ==
  IF ~r.ok THEN r ELSE createAdminLog(r.db, admin, action, target)

AdminDeleteQuestion(u, q) ==
  /\ AllIdle
  /\ isAdmin(db, u)
  /\ db.seq.adminLogs <= MaxAdminLogs
  /\ LET r == adminDo(db, u, deleteQuestion(db, q), "delete_question", q) IN
       /\ db' = r.db
       /\ last' = Ended("deleteQuestion", u, q, 0, IF r.ok THEN "ok" ELSE "error")
  /\ UNCHANGED <<procs, started>>

\* --------------------------------------- DELETE /api/admin/answers/:id
AdminDeleteAnswer(u, a) ==
  /\ AllIdle
  /\ isAdmin(db, u)
  /\ db.seq.adminLogs <= MaxAdminLogs
  /\ LET r == adminDo(db, u, deleteAnswer(db, a), "delete_answer", a) IN
       /\ db' = r.db
       /\ last' = Ended("deleteAnswer", u, 0, a, IF r.ok THEN "ok" ELSE "error")
  /\ UNCHANGED <<procs, started>>

QuestionIds == 1..MaxQuestions
AnswerIds == 1..MaxAnswers

\* One request at a time: a request starts only when none is in flight.
AcceptStartSerial(u, q, a) == AllIdle /\ AcceptStart(1, u, q, a)

NextQA ==
  \/ \E u \in UserIds : AskQuestion(u)
  \/ \E u \in UserIds, q \in QuestionIds : PostAnswer(u, q)
  \/ \E u \in UserIds, q \in QuestionIds, a \in AnswerIds : AcceptStartSerial(u, q, a)
  \/ AcceptGet(1)
  \/ AcceptClear(1)
  \/ AcceptSet(1)
  \/ AcceptPoint(1)
  \/ AcceptNotify(1)
  \/ \E u \in UserIds, q \in QuestionIds : DeleteQuestion(u, q)
  \/ \E u \in UserIds, q \in QuestionIds : AdminDeleteQuestion(u, q)
  \/ \E u \in UserIds, a \in AnswerIds : AdminDeleteAnswer(u, a)

SpecQA == Init /\ [][NextQA]_vars

\* ---------------------------------------------------- repository: votes
\* getVote: the rows its WHERE clause matches.  A truthy questionId adds
\* "questionId = :q AND answerId IS NULL", a truthy answerId adds
\* "answerId = :a AND questionId IS NULL"; with neither, only the user is matched.
getVote(d, u, q, a) ==
  {v \in DOMAIN d.votes :
     /\ d.votes[v].userId = u
     /\ (q # 0 => (d.votes[v].questionId = q /\ d.votes[v].answerId = 0))
     /\ (a # 0 => (d.votes[v].answerId = a /\ d.votes[v].questionId = 0))}

\* createVote's INSERT INTO votes.
insertVote(d, u, q, a, vt) ==
  IF \/ u \notin DOMAIN d.users
     \/ (q # 0 /\ q \notin DOMAIN d.questions)
     \/ (a # 0 /\ a \notin DOMAIN d.answers)
  THEN Threw(d)
  ELSE Ok([d EXCEPT
         !.votes = Insert(@, d.seq.votes,
            [userId |-> u, questionId |-> q, answerId |-> a, voteType |-> vt]),
         !.seq.votes = @ + 1])

\* An UPDATE that changes no row, and a DELETE that deletes none: what
\* updateVote and deleteVote would do if their WHERE clause matched nothing.
setVoteTypeKept(d, id, vt) == d
removeVoteKept(d, id) == d

\* updateVote's UPDATE votes SET voteType = :vt WHERE id = :id
setVoteType(d, id, vt) ==
  [d EXCEPT !.votes =
     [i \in DOMAIN @ |-> IF i = id THEN [@[i] EXCEPT !.voteType = vt] ELSE @[i]]]

\* deleteVote's DELETE FROM votes WHERE id = :id
removeVote(d, id) == [d EXCEPT !.votes = Remove(@, {id})]

\* updateVoteCount's counts: the votes of one type whose questionId (kind "q")
\* or answerId (kind "a") is the target.
countVotes(d, kind, target, vt) ==
  Cardinality({v \in DOMAIN d.votes :
     /\ d.votes[v].voteType = vt
     /\ IF kind = "q" THEN d.votes[v].questionId = target
                      ELSE d.votes[v].answerId = target})

\* An UPDATE of the tally that changes no row.
writeTallyKept(d, kind, target, n) == d

\* updateVoteCount's UPDATE questions / answers SET votes = :n WHERE id = :target
writeTally(d, kind, target, n) ==
  IF kind = "q"
  THEN [d EXCEPT !.questions =
          [i \in DOMAIN @ |-> IF i = target THEN [@[i] EXCEPT !.votes = n] ELSE @[i]]]
  ELSE [d EXCEPT !.answers =
          [i \in DOMAIN @ |-> IF i = target THEN [@[i] EXCEPT !.votes = n] ELSE @[i]]]

\* ----------------------------------------------------- POST /api/votes
\* What a vote request that ran among other requests leaves on record; the
\* record keeps whether any request so far started while another was in flight.
VoteEnded(r, out) ==
  [NoRequest EXCEPT !.op = "vote", !.out = out, !.overlap = last.overlap]

VoteStart(p, u, q, a, vt) ==
  /\ procs[p].pc = "idle"
  /\ started < MaxRequests
  /\ started' = started + 1
  /\ getVote(db, u, q, a) = {} => db.seq.votes <= MaxVotes
  /\ procs' = [procs EXCEPT ![p] =
        [IdleProc EXCEPT !.pc = "getVote", !.op = "vote", !.user = u, !.q = q,
                         !.a = a, !.vt = vt]]
  /\ last' = [last EXCEPT !.overlap = @ \/ ~AllIdle]
  /\ UNCHANGED db

\* const existingVote = await storage.getVote(...): the first row of the result,
\* in whatever order the database returns the matching rows.
VoteGet(p) ==
  /\ procs[p].pc = "getVote"
  /\ LET r == procs[p]
         m == getVote(db, r.user, r.q, r.a)
     IN IF m = {}
        THEN procs' = [procs EXCEPT ![p].pc = "createVote"]
        ELSE \E v \in m :
               procs' = [procs EXCEPT
                  ![p].ev = v,
                  ![p].pc = IF db.votes[v].voteType = r.vt THEN "deleteSelect"
                            ELSE "updateVote"]
  /\ UNCHANGED <<db, last, started>>

\* Where a request goes after its row write: updateVoteCount(tq, ta), which
\* recounts the question when tq is set, then the answer when ta is set.
ToCount(p, r, tq, ta, out) ==
  IF tq = 0 /\ ta = 0
  THEN Finish(p, VoteEnded(r, out))
  ELSE /\ procs' = [procs EXCEPT ![p].tq = tq, ![p].ta = ta, ![p].out = out,
                                 ![p].phase = IF tq # 0 THEN "q" ELSE "a",
                                 ![p].pc = "countUp"]
       /\ UNCHANGED <<last, started>>

\* insertVoteSchema.parse lets null through for both ids; then createVote.
VoteCreate(p) ==
  /\ procs[p].pc = "createVote"
  /\ LET r == procs[p]
         w == insertVote(db, r.user, r.q, r.a, r.vt)
     IN /\ db' = w.db
        /\ IF w.ok THEN ToCount(p, r, r.q, r.a, "created")
                   ELSE Finish(p, VoteEnded(r, "error"))

\* updateVote: the row it returns is undefined when no row has the id, and
\* reading its questionId then throws.
VoteUpdate(p) ==
  /\ procs[p].pc = "updateVote"
  /\ LET r == procs[p] IN
       IF r.ev \in DOMAIN db.votes
       THEN /\ db' = setVoteType(db, r.ev, r.vt)
            /\ ToCount(p, r, db.votes[r.ev].questionId, db.votes[r.ev].answerId, "updated")
       ELSE /\ UNCHANGED db
            /\ Finish(p, VoteEnded(r, "error"))

\* deleteVote, first statement: SELECT the vote by id.
VoteDeleteSelect(p) ==
  /\ procs[p].pc = "deleteSelect"
  /\ LET r == procs[p] IN
       procs' = [procs EXCEPT
          ![p].pc = "deleteVote",
          ![p].tq = IF r.ev \in DOMAIN db.votes THEN db.votes[r.ev].questionId ELSE 0,
          ![p].ta = IF r.ev \in DOMAIN db.votes THEN db.votes[r.ev].answerId ELSE 0]
  /\ UNCHANGED <<db, last, started>>

\* deleteVote, second statement: DELETE the row; the recount follows when the
\* SELECT had found it.
VoteDelete(p) ==
  /\ procs[p].pc = "deleteVote"
  /\ db' = removeVote(db, procs[p].ev)
  /\ ToCount(p, procs[p], procs[p].tq, procs[p].ta, "removed")

CountUp(p) ==
  /\ procs[p].pc = "countUp"
  /\ LET r == procs[p] IN
       procs' = [procs EXCEPT
          ![p].up = countVotes(db, r.phase, IF r.phase = "q" THEN r.tq ELSE r.ta, "up"),
          ![p].pc = "countDown"]
  /\ UNCHANGED <<db, last, started>>

CountDown(p) ==
  /\ procs[p].pc = "countDown"
  /\ LET r == procs[p] IN
       procs' = [procs EXCEPT
          ![p].down = countVotes(db, r.phase, IF r.phase = "q" THEN r.tq ELSE r.ta, "down"),
          ![p].pc = "writeTally"]
  /\ UNCHANGED <<db, last, started>>

WriteTally(p) ==
  /\ procs[p].pc = "writeTally"
  /\ LET r == procs[p] IN
       /\ db' = writeTally(db, r.phase, IF r.phase = "q" THEN r.tq ELSE r.ta, r.up - r.down)
       /\ IF r.phase = "q" /\ r.ta # 0
          THEN /\ procs' = [procs EXCEPT ![p].phase = "a", ![p].pc = "countUp"]
               /\ UNCHANGED <<last, started>>
          ELSE Finish(p, VoteEnded(r, r.out))

\* --------------------------------------------------- repository: posts
\* INSERT INTO posts: likes defaults to 0.
createPost(d, author) ==
  IF author \notin DOMAIN d.users THEN Threw(d)
  ELSE Ok([d EXCEPT
         !.posts = Insert(@, d.seq.posts, [authorId |-> author, likes |-> 0]),
         !.seq.posts = @ + 1])

createPostComment(d, post, author) ==
  IF author \notin DOMAIN d.users \/ post \notin DOMAIN d.posts THEN Threw(d)
  ELSE Ok([d EXCEPT
         !.postComments = Insert(@, d.seq.postComments,
            [postId |-> post, authorId |-> author]),
         !.seq.postComments = @ + 1])

\* The PostLike rows of a user on a post.
likesBy(d, post, u) ==
  {l \in DOMAIN d.postLikes : d.postLikes[l].postId = post /\ d.postLikes[l].userId = u}

isPostLikedByUser(d, post, u) == likesBy(d, post, u) # {}

\* UPDATE posts SET likes = likes + :n WHERE id = :post
addLikes(d, post, n) ==
  [d EXCEPT !.posts =
     [i \in DOMAIN @ |-> IF i = post THEN [@[i] EXCEPT !.likes = @ + n] ELSE @[i]]]

\* likePost: when the user has no like on the post, insert one and increment.
likePost(d, post, u) ==
  IF likesBy(d, post, u) # {} THEN Ok(d)
  ELSE IF u \notin DOMAIN d.users \/ post \notin DOMAIN d.posts THEN Threw(d)
  ELSE Ok(addLikes([d EXCEPT
            !.postLikes = Insert(@, d.seq.postLikes, [postId |-> post, userId |-> u]),
            !.seq.postLikes = @ + 1], post, 1))

\* An unlikePost that deletes the rows and leaves the counter alone.
unlikePostRowsOnly(d, post, u) ==
  Ok([d EXCEPT !.postLikes = Remove(@, likesBy(d, post, u))])

\* unlikePost: delete the user's likes on the post, then decrement whether or
\* not a row was deleted.
unlikePost(d, post, u) ==
  Ok(addLikes([d EXCEPT !.postLikes = Remove(@, likesBy(d, post, u))], post, -1))

\* ----------------------------------------------------- POST /api/posts
PostIds == 1..MaxPosts

CreatePost(u) ==
  /\ AllIdle
  /\ db.seq.posts <= MaxPosts
  /\ LET r == createPost(db, u) IN
       /\ db' = r.db
       /\ last' = [NoRequest EXCEPT !.op = "createPost", !.out = IF r.ok THEN "ok" ELSE "error"]
  /\ UNCHANGED <<procs, started>>

\* -------------------------------------------- POST /api/posts/:id/like
\* The PostLike rows of a post, and its stored likes counter.
likesOf(d, post) == {l \in DOMAIN d.postLikes : d.postLikes[l].postId = post}

storedLikes(d, post) == IF post \in DOMAIN d.posts THEN d.posts[post].likes ELSE 0

\* The record of a like request: before it, the rows of the pair, the rows of
\* the post and the post's counter; and, when the request before it was the
\* same request, what that one recorded.
LikeEnded(d, u, post, out) ==
  LET twice == /\ last.op = "likePost" /\ last.user = u /\ last.q = post
               /\ last.out # "error"
  IN [NoRequest EXCEPT
        !.op = "likePost", !.user = u, !.q = post, !.out = out,
        !.before = Cardinality(likesBy(d, post, u)),
        !.tally = storedLikes(d, post),
        !.rows = Cardinality(likesOf(d, post)),
        !.twice = twice,
        !.before0 = IF twice THEN last.before ELSE 0,
        !.tally0 = IF twice THEN last.tally ELSE 0,
        !.rows0 = IF twice THEN last.rows ELSE 0]

LikePost(u, post) ==
  /\ AllIdle
  /\ ~isPostLikedByUser(db, post, u) => db.seq.postLikes <= MaxPostLikes
  /\ LET liked == isPostLikedByUser(db, post, u)
         r == IF liked THEN unlikePost(db, post, u) ELSE likePost(db, post, u)
     IN /\ db' = r.db
        /\ last' = LikeEnded(db, u, post,
                     IF ~r.ok THEN "error" ELSE IF liked THEN "unliked" ELSE "liked")
  /\ UNCHANGED <<procs, started>>

\* --------------------- POST /api/posts/:id/like, statement by statement
\* What a like request that ran among other requests leaves on record.
LikeConcEnded(out) == [NoRequest EXCEPT !.op = "likePost", !.out = out]

LikeStart(p, u, post) ==
  /\ procs[p].pc = "idle"
  /\ started < MaxRequests
  /\ started' = started + 1
  /\ procs' = [procs EXCEPT ![p] =
        [IdleProc EXCEPT !.pc = "likeCheck", !.op = "like", !.user = u, !.q = post]]
  /\ UNCHANGED <<db, last>>

\* const isLiked = await storage.isPostLikedByUser(postId, user.id)
LikeCheck(p) ==
  /\ procs[p].pc = "likeCheck"
  /\ procs' = [procs EXCEPT ![p].pc =
        IF isPostLikedByUser(db, procs[p].q, procs[p].user) THEN "unlikeDelete"
        ELSE "likeSelect"]
  /\ UNCHANGED <<db, last, started>>

\* likePost, first statement: SELECT the existing likes of the pair; with one
\* found likePost returns and the route answers "liked".
LikeSelect(p) ==
  /\ procs[p].pc = "likeSelect"
  /\ IF likesBy(db, procs[p].q, procs[p].user) # {}
     THEN Finish(p, LikeConcEnded("liked"))
     ELSE /\ procs' = [procs EXCEPT ![p].pc = "likeInsert"]
          /\ UNCHANGED <<last, started>>
  /\ UNCHANGED db

\* likePost, second statement: INSERT INTO post_likes.
LikeInsert(p) ==
  /\ procs[p].pc = "likeInsert"
  /\ LET r == procs[p] IN
       IF r.user \notin DOMAIN db.users \/ r.q \notin DOMAIN db.posts
       THEN /\ UNCHANGED db
            /\ Finish(p, LikeConcEnded("error"))
       ELSE /\ db' = [db EXCEPT
                 !.postLikes = Insert(@, db.seq.postLikes, [postId |-> r.q, userId |-> r.user]),
                 !.seq.postLikes = @ + 1]
            /\ procs' = [procs EXCEPT ![p].pc = "likeIncrement"]
            /\ UNCHANGED <<last, started>>

\* likePost, third statement: UPDATE posts SET likes = likes + 1.
LikeIncrement(p) ==
  /\ procs[p].pc = "likeIncrement"
  /\ db' = addLikes(db, procs[p].q, 1)
  /\ Finish(p, LikeConcEnded("liked"))

\* unlikePost, first statement: const deleted = DELETE the likes of the pair.
UnlikeDelete(p) ==
  /\ procs[p].pc = "unlikeDelete"
  /\ db' = [db EXCEPT !.postLikes = Remove(@, likesBy(db, procs[p].q, procs[p].user))]
  /\ procs' = [procs EXCEPT ![p].pc = "unlikeDecrement",
                            ![p].snap = [l \in likesBy(db, procs[p].q, procs[p].user) |->
                                           db.postLikes[l]]]
  /\ UNCHANGED <<last, started>>

\* unlikePost, second statement: UPDATE posts SET likes = likes - 1.
UnlikeDecrement(p) ==
  /\ procs[p].pc = "unlikeDecrement"
  /\ db' = addLikes(db, procs[p].q, -1)
  /\ Finish(p, LikeConcEnded("unliked"))

\* ------------------------------------------ PUT, DELETE /api/posts/:id
\* updatePost: UPDATE posts SET ...post WHERE id = :id, with the body's
\* authorId (0: none), which insertPostSchema.partial() lets through.
updatePost(d, id, author) ==
  IF author = 0 \/ id \notin DOMAIN d.posts THEN Ok(d)
  ELSE IF author \notin DOMAIN d.users THEN Threw(d)
  ELSE Ok([d EXCEPT !.posts[id].authorId = author])

\* DELETE FROM posts WHERE id = :id
deletePost(d, id) == DeletePosts(d, {id})

UpdatePost(u, post, author) ==
  /\ AllIdle
  /\ IF post \notin DOMAIN db.posts
     THEN /\ last' = Ended("updatePost", u, post, 0, "notFound")
          /\ UNCHANGED db
     ELSE IF db.posts[post].authorId # u
     THEN /\ last' = Ended("updatePost", u, post, 0, "forbidden")
          /\ UNCHANGED db
     ELSE LET r == updatePost(db, post, author) IN
          /\ db' = r.db
          /\ last' = Ended("updatePost", u, post, 0, IF r.ok THEN "ok" ELSE "error")
  /\ UNCHANGED <<procs, started>>

DeletePost(u, post) ==
  /\ AllIdle
  /\ IF post \notin DOMAIN db.posts
     THEN /\ last' = Ended("deletePost", u, post, 0, "notFound")
          /\ UNCHANGED db
     ELSE IF db.posts[post].authorId # u
     THEN /\ last' = Ended("deletePost", u, post, 0, "forbidden")
          /\ UNCHANGED db
     ELSE LET r == deletePost(db, post) IN
          /\ db' = r.db
          /\ last' = Ended("deletePost", u, post, 0, IF r.ok THEN "ok" ELSE "error")
  /\ UNCHANGED <<procs, started>>

\* ---------------------------------------- POST /api/posts/:id/comments
CommentPost(u, post) ==
  /\ AllIdle
  /\ db.seq.postComments <= MaxPostComments
  /\ LET r == createPostComment(db, post, u) IN
       /\ db' = r.db
       /\ last' = [NoRequest EXCEPT !.op = "commentPost", !.out = IF r.ok THEN "ok" ELSE "error"]
  /\ UNCHANGED <<procs, started>>

\* ------------------------------------------------ repository: deleteUser
\* The statements of deleteUser, each applied to the outcome of the ones
\* before it: the first that throws ends the call, and what the earlier ones
\* deleted stays deleted (no transaction).
delAnswersToQuestionsOf(r, id) ==
  IF ~r.ok THEN r
  ELSE IF \E q \in DOMAIN r.db.questions : r.db.questions[q].authorId = id
       THEN DeleteAnswers(r.db, {a \in DOMAIN r.db.answers :
              /\ r.db.answers[a].questionId \in DOMAIN r.db.questions
              /\ r.db.questions[r.db.answers[a].questionId].authorId = id})
       ELSE r

delAnswersOf(r, id) ==
  IF ~r.ok THEN r
  ELSE DeleteAnswers(r.db, {a \in DOMAIN r.db.answers : r.db.answers[a].authorId = id})

delQuestionsOf(r, id) ==
  IF ~r.ok THEN r
  ELSE DeleteQuestions(r.db, {q \in DOMAIN r.db.questions : r.db.questions[q].authorId = id})

delVotesOf(r, id) ==
  IF ~r.ok THEN r
  ELSE Ok([r.db EXCEPT !.votes = Remove(@, {v \in DOMAIN @ : @[v].userId = id})])

delNotificationsOf(r, id) ==
  IF ~r.ok THEN r
  ELSE Ok([r.db EXCEPT !.notifications = Remove(@, {n \in DOMAIN @ : @[n].userId = id})])

delPostLikesOf(r, id) ==
  IF ~r.ok THEN r
  ELSE Ok([r.db EXCEPT !.postLikes = Remove(@, {l \in DOMAIN @ : @[l].userId = id})])

delPostCommentsOf(r, id) ==
  IF ~r.ok THEN r
  ELSE Ok([r.db EXCEPT !.postComments = Remove(@, {c \in DOMAIN @ : @[c].authorId = id})])

delPostsOf(r, id) ==
  IF ~r.ok THEN r
  ELSE DeletePosts(r.db, {p \in DOMAIN r.db.posts : r.db.posts[p].authorId = id})

\* A last statement that clears the user's entries of the admin log first.
delUserRowAndLogs(r, id) ==
  IF ~r.ok THEN r
  ELSE DeleteUsers([r.db EXCEPT !.adminLogs = Remove(@, {g \in DOMAIN @ : @[g].adminId = id})],
                   {id})

delUserRow(r, id) ==
  IF ~r.ok THEN r ELSE DeleteUsers(r.db, {id})

\* A deleteUser of one statement, on a substrate that does not check references:
\* the DELETE of the user row alone.
deleteUserRowOnly(d, id) == Ok([d EXCEPT !.users = Remove(@, {id})])

deleteUser(d, id) ==
  delUserRow(
    delPostsOf(
      delPostCommentsOf(
        delPostLikesOf(
          delNotificationsOf(
            delVotesOf(
              delQuestionsOf(
                delAnswersOf(
                  delAnswersToQuestionsOf(Ok(d), id),
                  id), id), id), id), id), id), id), id)

\* The tables of the cascade in which rows name the user as author or user.
ownedBy(d, id) ==
  {t \in {"questions", "answers", "posts", "postComments"} :
      \E i \in DOMAIN d[t] : d[t][i].authorId = id}
  \cup {t \in {"votes", "notifications", "postLikes"} :
      \E i \in DOMAIN d[t] : d[t][i].userId = id}

\* ----------------------------------------- DELETE /api/admin/users/:id
AdminDeleteUser(u, id) ==
  /\ AllIdle
  /\ isAdmin(db, u)
  /\ db.seq.adminLogs <= MaxAdminLogs
  /\ IF id = u
     THEN /\ UNCHANGED db
          /\ last' = [NoRequest EXCEPT !.op = "deleteUser", !.user = u, !.target = id,
                                       !.out = "invalid"]
     ELSE LET r == adminDo(db, u, deleteUser(db, id), "delete_user", id) IN
          /\ db' = r.db
          /\ last' = [NoRequest EXCEPT !.op = "deleteUser", !.user = u, !.target = id,
                                       !.owned = ownedBy(db, id),
                                       !.out = IF r.ok THEN "ok" ELSE "error"]
  /\ UNCHANGED <<procs, started>>

\* The same route where the log may grow to maxLogs rows.
AdminDeleteUserWithin(u, id, maxLogs) ==
  /\ AllIdle
  /\ isAdmin(db, u)
  /\ db.seq.adminLogs <= maxLogs
  /\ IF id = u
     THEN /\ UNCHANGED db
          /\ last' = [NoRequest EXCEPT !.op = "deleteUser", !.user = u, !.target = id,
                                       !.out = "invalid"]
     ELSE LET r == adminDo(db, u, deleteUser(db, id), "delete_user", id) IN
          /\ db' = r.db
          /\ last' = [NoRequest EXCEPT !.op = "deleteUser", !.user = u, !.target = id,
                                       !.owned = ownedBy(db, id),
                                       !.out = IF r.ok THEN "ok" ELSE "error"]
  /\ UNCHANGED <<procs, started>>

\* ------------------------------------------- repository: user accounts
\* What a request body can say about isAdmin: nothing, true, false, or a
\* JSON null.
AdminBodies == {"absent", "true", "false", "null"}

\* updateUser: UPDATE users SET ...userData WHERE id = :id.  Of the body the
\* model keeps isAdmin.  The column is nullable: a null is stored, and every
\* test of isAdmin in the code reads NULL as false.
updateUser(d, id, body) ==
  IF body = "absent" \/ id \notin DOMAIN d.users THEN Ok(d)
  ELSE Ok([d EXCEPT !.users[id].isAdmin = (body = "true")])

\* makeUserAdmin: UPDATE users SET isAdmin = true WHERE id = :id
makeUserAdmin(d, id) ==
  IF id \notin DOMAIN d.users THEN Ok(d)
  ELSE Ok([d EXCEPT !.users[id].isAdmin = TRUE])

\* removeUserAdmin: UPDATE users SET isAdmin = false WHERE id = :id
removeUserAdmin(d, id) ==
  IF id \notin DOMAIN d.users THEN Ok(d)
  ELSE Ok([d EXCEPT !.users[id].isAdmin = FALSE])

\* What an admin request on a user account leaves on record.
AdminEnded(op, u, id, out) ==
  [NoRequest EXCEPT !.op = op, !.user = u, !.target = id, !.out = out]

\* -------------------------------------------- PUT /api/admin/users/:id
AdminUpdateUser(u, id, body) ==
  /\ AllIdle
  /\ isAdmin(db, u)
  /\ db.seq.adminLogs <= MaxAdminActions
  /\ IF id = u /\ body = "false"
     THEN /\ UNCHANGED db
          /\ last' = AdminEnded("updateUser", u, id, "invalid")
     ELSE LET r == adminDo(db, u, updateUser(db, id, body), "update_user", id) IN
          /\ db' = r.db
          /\ last' = AdminEnded("updateUser", u, id, IF r.ok THEN "ok" ELSE "error")
  /\ UNCHANGED <<procs, started>>

\* ------------------------------- POST /api/admin/users/:id/make-admin
MakeAdmin(u, id) ==
  /\ AllIdle
  /\ isAdmin(db, u)
  /\ db.seq.adminLogs <= MaxAdminActions
  /\ LET r == adminDo(db, u, makeUserAdmin(db, id), "make_admin", id) IN
       /\ db' = r.db
       /\ last' = AdminEnded("makeAdmin", u, id, IF r.ok THEN "ok" ELSE "error")
  /\ UNCHANGED <<procs, started>>

\* ----------------------------- POST /api/admin/users/:id/remove-admin
RemoveAdmin(u, id) ==
  /\ AllIdle
  /\ isAdmin(db, u)
  /\ db.seq.adminLogs <= MaxAdminActions
  /\ IF id = u
     THEN /\ UNCHANGED db
          /\ last' = AdminEnded("removeAdmin", u, id, "invalid")
     ELSE LET r == adminDo(db, u, removeUserAdmin(db, id), "remove_admin", id) IN
          /\ db' = r.db
          /\ last' = AdminEnded("removeAdmin", u, id, IF r.ok THEN "ok" ELSE "error")
  /\ UNCHANGED <<procs, started>>

\* --------------------------- the admin user routes, among other requests
AdminOps == {"updateUser", "deleteUser", "makeAdmin", "removeAdmin"}

AdminStart(p, u, op, id, body) ==
  /\ procs[p].pc = "idle"
  /\ started < MaxRequests
  /\ op # "updateUser" => body = "absent"
  /\ started' = started + 1
  /\ procs' = [procs EXCEPT ![p] =
        [IdleProc EXCEPT !.pc = "isAdmin", !.op = op, !.user = u, !.target = id,
                         !.body = body]]
  /\ UNCHANGED <<db, last>>

\* The isAdmin middleware: 403 unless the user's row, read now, has isAdmin.
AdminCheck(p) ==
  /\ procs[p].pc = "isAdmin"
  /\ IF isAdmin(db, procs[p].user)
     THEN /\ procs' = [procs EXCEPT ![p].pc = "mutate"]
          /\ UNCHANGED <<last, started>>
     ELSE Finish(p, AdminEnded(procs[p].op, procs[p].user, procs[p].target, "forbidden"))
  /\ UNCHANGED db

\* The handler's guard against acting on oneself.
SelfGuarded(r) ==
  \/ r.op = "updateUser" /\ r.target = r.user /\ r.body = "false"
  \/ r.op \in {"deleteUser", "removeAdmin"} /\ r.target = r.user

\* The handler's call to the repository.
AdminCall(d, r) ==
  CASE r.op = "updateUser" -> updateUser(d, r.target, r.body)
    [] r.op = "deleteUser" -> deleteUser(d, r.target)
    [] r.op = "makeAdmin" -> makeUserAdmin(d, r.target)
    [] r.op = "removeAdmin" -> removeUserAdmin(d, r.target)

\* The handler up to its repository call: 400 on oneself, 500 when the call
\* throws.
AdminMutate(p) ==
  /\ procs[p].pc = "mutate"
  /\ LET r == procs[p] IN
       IF SelfGuarded(r)
       THEN /\ UNCHANGED db
            /\ Finish(p, AdminEnded(r.op, r.user, r.target, "invalid"))
       ELSE LET w == AdminCall(db, r) IN
            /\ db' = w.db
            /\ IF w.ok
               THEN /\ procs' = [procs EXCEPT ![p].pc = "log"]
                    /\ UNCHANGED <<last, started>>
               ELSE Finish(p, AdminEnded(r.op, r.user, r.target, "error"))

\* await storage.createAdminLog(...), then the 200.
AdminLog(p) ==
  /\ procs[p].pc = "log"
  /\ LET r == procs[p]
         action == CASE r.op = "updateUser" -> "update_user"
                     [] r.op = "deleteUser" -> "delete_user"
                     [] r.op = "makeAdmin" -> "make_admin"
                     [] r.op = "removeAdmin" -> "remove_admin"
         w == createAdminLog(db, r.user, action, r.target)
     IN /\ db' = w.db
        /\ Finish(p, AdminEnded(r.op, r.user, r.target, IF w.ok THEN "ok" ELSE "error"))

\* ------------------------------------- POST /api/votes, run to its end
\* updateVoteCount(questionId, answerId): recount and store the question's
\* tally when questionId is set, then the answer's when answerId is set.
updateVoteCount(d, tq, ta) ==
  LET d1 == IF tq # 0
            THEN writeTally(d, "q", tq, countVotes(d, "q", tq, "up") - countVotes(d, "q", tq, "down"))
            ELSE d
  IN IF ta # 0
     THEN writeTally(d1, "a", ta, countVotes(d1, "a", ta, "up") - countVotes(d1, "a", ta, "down"))
     ELSE d1

\* The handler with no other request between its statements: every outcome it
\* can have, as the database after its row write (mid), the database it
\* leaves (db) and what it answered.  getVote's first row is any matching row.
castVote(d, u, q, a, vt) ==
  LET m == getVote(d, u, q, a) IN
  IF m = {}
  THEN LET w == insertVote(d, u, q, a, vt) IN
       IF w.ok
       THEN {[db |-> updateVoteCount(w.db, q, a), mid |-> w.db, out |-> "created"]}
       ELSE {[db |-> d, mid |-> d, out |-> "error"]}
  ELSE {IF d.votes[v].voteType = vt
        THEN [db |-> updateVoteCount(removeVote(d, v), d.votes[v].questionId, d.votes[v].answerId),
              mid |-> removeVote(d, v), out |-> "removed"]
        ELSE [db |-> updateVoteCount(setVoteType(d, v, vt), d.votes[v].questionId, d.votes[v].answerId),
              mid |-> setVoteType(d, v, vt), out |-> "updated"]
        : v \in m}

\* The Vote rows of a user on the one target a request body names.
rowsFor(d, u, q, a) ==
  {v \in DOMAIN d.votes : /\ d.votes[v].userId = u
                          /\ d.votes[v].questionId = q
                          /\ d.votes[v].answerId = a}

\* The stored tally of the one target a request body names (0 when it names
\* none, both, or a row that does not exist).
storedTally(d, q, a) ==
  IF q # 0 /\ a = 0 /\ q \in DOMAIN d.questions THEN d.questions[q].votes
  ELSE IF a # 0 /\ q = 0 /\ a \in DOMAIN d.answers THEN d.answers[a].votes
  ELSE 0

\* The tally the Vote rows give the one target a request body names: its
\* 'up' rows minus its 'down' rows.
countedTally(d, q, a) ==
  IF q # 0 /\ a = 0 THEN countVotes(d, "q", q, "up") - countVotes(d, "q", q, "down")
  ELSE IF a # 0 /\ q = 0 THEN countVotes(d, "a", a, "up") - countVotes(d, "a", a, "down")
  ELSE 0

\* The record of a vote request: before it, how many rows the user had on the
\* target, the target's stored tally and whether that agreed with the rows;
\* the rows of the pair between its row write and its recount; and, when the
\* request before it was the same request, what that one recorded.
CastEnded(d, u, q, a, vt, o) ==
  LET twice == /\ last.op = "vote" /\ last.user = u /\ last.q = q
               /\ last.a = a /\ last.vt = vt /\ last.out # "error"
  IN [NoRequest EXCEPT
        !.op = "vote", !.user = u, !.q = q, !.a = a, !.vt = vt, !.out = o.out,
        !.before = Cardinality(rowsFor(d, u, q, a)),
        !.during = Cardinality(rowsFor(o.mid, u, q, a)),
        !.tally = storedTally(d, q, a),
        !.sync = (storedTally(d, q, a) = countedTally(d, q, a)),
        !.twice = twice,
        !.before0 = IF twice THEN last.before ELSE 0,
        !.tally0 = IF twice THEN last.tally ELSE 0,
        !.sync0 = IF twice THEN last.sync ELSE FALSE]

PostVote(u, q, a, vt) ==
  /\ AllIdle
  /\ getVote(db, u, q, a) = {} => db.seq.votes <= MaxVotes
  /\ \E o \in castVote(db, u, q, a, vt) :
       /\ db' = o.db
       /\ last' = CastEnded(db, u, q, a, vt, o)
  /\ UNCHANGED <<procs, started>>

\* ------------------------------------------------------ voting, serial
\* A database with one question and one answer to it, as the two requests
\* POST /api/questions and POST /api/questions/1/answers leave it.
SeedDb(qa, aa) == postAnswer(createQuestion(EmptyDb, qa).db, aa, 1).db

InitVote ==
  /\ \E qa \in UserIds, aa \in UserIds : db = SeedDb(qa, aa)
  /\ procs = [p \in Procs |-> IdleProc]
  /\ last = NoRequest
  /\ started = 0

NextVote ==
  \/ \E u \in UserIds, q \in 0..MaxQuestions, a \in 0..MaxAnswers, vt \in VoteTypes :
       PostVote(u, q, a, vt)
  \/ \E u \in UserIds, id \in UserIds : AdminDeleteUser(u, id)

SpecVote == InitVote /\ [][NextVote]_vars

\* -------------------------------------------------- voting, concurrent
\* Requests in flight together, all voting on the seed's question.
InitVoteConc ==
  /\ db = SeedDb(1, 1)
  /\ procs = [p \in Procs |-> IdleProc]
  /\ last = NoRequest
  /\ started = 0

NextVoteConc ==
  \/ \E p \in Procs, u \in UserIds, vt \in VoteTypes : VoteStart(p, u, 1, 0, vt)
  \/ \E p \in Procs : VoteGet(p)
  \/ \E p \in Procs : VoteCreate(p)
  \/ \E p \in Procs : VoteUpdate(p)
  \/ \E p \in Procs : VoteDeleteSelect(p)
  \/ \E p \in Procs : VoteDelete(p)
  \/ \E p \in Procs : CountUp(p)
  \/ \E p \in Procs : CountDown(p)
  \/ \E p \in Procs : WriteTally(p)

SpecVoteConc == InitVoteConc /\ [][NextVoteConc]_vars

\* ------------------------------------------------- accounts, serial
\* Over a question and its answer, users vote, post, like and comment, and
\* the admin deletes users.
NextUser ==
  \/ \E u \in UserIds, q \in 0..1, vt \in VoteTypes : PostVote(u, q, 0, vt)
  \/ \E u \in UserIds : CreatePost(u)
  \/ \E u \in UserIds, post \in PostIds : LikePost(u, post)
  \/ \E u \in UserIds, post \in PostIds : CommentPost(u, post)
  \/ \E u \in UserIds, id \in UserIds : AdminDeleteUser(u, id)

SpecUser == InitVote /\ [][NextUser]_vars

\* ------------------------------------------- accounts with two admins
\* As above, and admins grant admin status: an admin can then be deleted
\* by another, with entries of the log naming either.
NextAdminUser ==
  \/ \E u \in UserIds, vt \in VoteTypes : PostVote(u, 1, 0, vt)
  \/ \E u \in UserIds : CreatePost(u)
  \/ \E u \in UserIds, post \in PostIds : LikePost(u, post)
  \/ \E u \in UserIds, post \in PostIds : CommentPost(u, post)
  \/ \E u \in UserIds, id \in UserIds : MakeAdmin(u, id)
  \/ \E u \in UserIds, id \in UserIds : AdminDeleteUserWithin(u, id, MaxAdminActions)

SpecAdminUser == InitVote /\ [][NextAdminUser]_vars

\* --------------------------------------------------- views, concurrent
\* One question of either user; requests for it and for an id that no
\* question has are in flight together.
InitViewConc ==
  /\ \E u \in UserIds : db = createQuestion(EmptyDb, u).db
  /\ procs = [p \in Procs |-> IdleProc]
  /\ last = NoRequest
  /\ started = 0

NextViewConc ==
  \/ \E p \in Procs, id \in 1..2 : ViewStart(p, id)
  \/ \E p \in Procs : ViewGet(p)
  \/ \E p \in Procs : ViewIncrement(p)

SpecViewConc == InitViewConc /\ [][NextViewConc]_vars

\* ------------------------------------------------- admin routes, serial
\* Over a question and its answer, admins update, promote, demote and delete
\* user accounts, one request after another.
NextAdmin ==
  \/ \E u \in UserIds, id \in UserIds, body \in AdminBodies : AdminUpdateUser(u, id, body)
  \/ \E u \in UserIds, id \in UserIds : MakeAdmin(u, id)
  \/ \E u \in UserIds, id \in UserIds : RemoveAdmin(u, id)
  \/ \E u \in UserIds, id \in UserIds : AdminDeleteUserWithin(u, id, MaxAdminActions)

SpecAdmin == InitVote /\ [][NextAdmin]_vars

\* --------------------------------------------- admin routes, concurrent
\* Requests on user accounts in flight together, from the registered users
\* of whom user 1 is the admin.
NextAdminConc ==
  \/ \E p \in Procs, u \in UserIds, op \in AdminOps, id \in UserIds, body \in AdminBodies :
       AdminStart(p, u, op, id, body)
  \/ \E p \in Procs : AdminCheck(p)
  \/ \E p \in Procs : AdminMutate(p)
  \/ \E p \in Procs : AdminLog(p)

SpecAdminConc == Init /\ [][NextAdminConc]_vars

\* ------------------------------------------------------- author routes
\* Users ask and post, and edit and delete their questions and posts, one
\* request after another; an edit's body may name an author.
NextAuthor ==
  \/ \E u \in UserIds : AskQuestion(u)
  \/ \E u \in UserIds, q \in QuestionIds, author \in 0..NUsers : UpdateQuestion(u, q, author)
  \/ \E u \in UserIds, q \in QuestionIds : DeleteQuestion(u, q)
  \/ \E u \in UserIds : CreatePost(u)
  \/ \E u \in UserIds, post \in PostIds, author \in 0..NUsers : UpdatePost(u, post, author)
  \/ \E u \in UserIds, post \in PostIds : DeletePost(u, post)

SpecAuthor == Init /\ [][NextAuthor]_vars

\* ------------------------------------------------- owners and the others
\* Two questions, an answer to the first and a post, of any of the users:
\* users accept and edit answers and edit and delete questions and posts.
InitOwner ==
  /\ \E qa \in UserIds, qb \in UserIds, aa \in UserIds, pa \in UserIds :
       db = createPost(
              postAnswer(createQuestion(createQuestion(EmptyDb, qa).db, qb).db, aa, 1).db,
              pa).db
  /\ procs = [p \in Procs |-> IdleProc]
  /\ last = NoRequest
  /\ started = 0

NextOwner ==
  \/ \E u \in UserIds, q \in QuestionIds, a \in AnswerIds : AcceptStartSerial(u, q, a)
  \/ AcceptGet(1)
  \/ AcceptClear(1)
  \/ AcceptSet(1)
  \/ AcceptPoint(1)
  \/ AcceptNotify(1)
  \/ \E u \in UserIds, q \in QuestionIds, author \in 0..NUsers : UpdateQuestion(u, q, author)
  \/ \E u \in UserIds, q \in QuestionIds : DeleteQuestion(u, q)
  \/ \E u \in UserIds, post \in PostIds, author \in 0..NUsers : UpdatePost(u, post, author)
  \/ \E u \in UserIds, post \in PostIds : DeletePost(u, post)
  \/ \E u \in UserIds, a \in AnswerIds : UpdateAnswer(u, a)

SpecOwner == InitOwner /\ [][NextOwner]_vars

\* --------------------------------------------------- likes, concurrent
\* Like requests in flight together, all on one post of user 1; between
\* requests the admin deletes users.
InitLikeConc ==
  /\ db = createPost(EmptyDb, 1).db
  /\ procs = [p \in Procs |-> IdleProc]
  /\ last = NoRequest
  /\ started = 0

NextLikeConc ==
  \/ \E p \in Procs, u \in UserIds : LikeStart(p, u, 1)
  \/ \E p \in Procs : LikeCheck(p)
  \/ \E p \in Procs : LikeSelect(p)
  \/ \E p \in Procs : LikeInsert(p)
  \/ \E p \in Procs : LikeIncrement(p)
  \/ \E p \in Procs : UnlikeDelete(p)
  \/ \E p \in Procs : UnlikeDecrement(p)
  \/ \E u \in UserIds, id \in UserIds : AdminDeleteUser(u, id)

SpecLikeConc == InitLikeConc /\ [][NextLikeConc]_vars

\* ------------------------------------------- listing, concurrent
\* Lists of the unanswered questions while answers to question 1 arrive.
InitList ==
  /\ db = createQuestion(EmptyDb, 1).db
  /\ procs = [p \in Procs |-> IdleProc]
  /\ last = NoRequest
  /\ started = 0

NextList ==
  \/ \E p \in Procs : ListStart(p)
  \/ \E p \in Procs : ListQuery(p)
  \/ \E p \in Procs : ListCount(p)
  \/ \E u \in UserIds, q \in QuestionIds : PostAnswerAmid(u, q)
  \/ \E u \in UserIds : AskQuestion(u)

SpecList == InitList /\ [][NextList]_vars

\* ----------------------------------------------------- reading, serial
\* Questions are asked, answered, viewed and listed; a read may meet a
\* failure of the substrate.
NextRead ==
  \/ \E u \in UserIds : AskQuestion(u)
  \/ \E u \in UserIds, q \in QuestionIds : PostAnswer(u, q)
  \/ \E id \in QuestionIds, fails \in BOOLEAN : ViewQuestion(id, fails)
  \/ \E fails \in BOOLEAN : ListQuestions(fails)

SpecRead == Init /\ [][NextRead]_vars

\* ------------------------------------------------ accepting, concurrent
\* Question 1 of user 1 with two answers of user 1; accept requests of user 1
\* for the two answers in flight together, any of which the substrate may fail
\* between two writes.
InitAcceptConc ==
  /\ db = postAnswer(postAnswer(createQuestion(EmptyDb, 1).db, 1, 1).db, 1, 1).db
  /\ procs = [p \in Procs |-> IdleProc]
  /\ last = NoRequest
  /\ started = 0

NextAcceptConc ==
  \/ \E p \in Procs, a \in AnswerIds : AcceptStart(p, 1, 1, a)
  \/ \E p \in Procs : AcceptGet(p)
  \/ \E p \in Procs : AcceptClear(p)
  \/ \E p \in Procs : AcceptSet(p)
  \/ \E p \in Procs : AcceptPoint(p)
  \/ \E p \in Procs : AcceptNotify(p)
  \/ \E p \in Procs : AcceptFail(p)

SpecAcceptConc == InitAcceptConc /\ [][NextAcceptConc]_vars

\* ----------------------------------------------------------- claims
AcceptedOf(q) == {a \in DOMAIN db.answers : db.answers[a].questionId = q /\ db.answers[a].isAccepted}

\* C1: with requests executed one at a time, between requests every Question
\* has at most one accepted Answer, and when it has one the Question's
\* acceptedAnswerId is that Answer's id.
C1_AcceptExclusive ==
  AllIdle =>
    \A q \in DOMAIN db.questions :
      /\ Cardinality(AcceptedOf(q)) <= 1
      /\ \A a \in AcceptedOf(q) : db.questions[q].acceptedAnswerId = a

\* C2: a Question's acceptedAnswerId, when set, is the id of an existing Answer
\* of that Question.
C2_AcceptedAnswerExists ==
  AllIdle =>
    \A q \in DOMAIN db.questions :
      LET a == db.questions[q].acceptedAnswerId IN
      a # 0 => (a \in DOMAIN db.answers /\ db.answers[a].questionId = q)

\* C10: when a deleteQuestion(id) call has ended, the Question is gone and no
\* Answer with questionId = id remains.
C10_DeleteQuestionCascades ==
  (last.op = "deleteQuestion" /\ last.out \in {"ok", "error"}) =>
    /\ last.q \notin DOMAIN db.questions
    /\ \A a \in DOMAIN db.answers : db.answers[a].questionId # last.q

\* C3: between requests, each Question's and each Answer's stored votes equals
\* the number of its 'up' Vote rows minus the number of its 'down' Vote rows.
C3_TallyConsistent ==
  AllIdle =>
    /\ \A q \in DOMAIN db.questions : db.questions[q].votes = countedTally(db, q, 0)
    /\ \A a \in DOMAIN db.answers : db.answers[a].votes = countedTally(db, 0, a)

\* C4: in every state, also while vote requests interleave, a user has at
\* most one Vote row on a Question and at most one on an Answer.
C4_OneVotePerPair ==
  \A u \in UserIds :
    /\ \A q \in QuestionIds : Cardinality(rowsFor(db, u, q, 0)) <= 1
    /\ \A a \in AnswerIds : Cardinality(rowsFor(db, u, 0, a)) <= 1

\* A request body that names one target: a question or an answer, not both.
OneTarget(q, a) == (q # 0) # (a # 0)

\* The second of two consecutive identical vote requests on one target.
SecondOfTwo == last.op = "vote" /\ last.twice /\ OneTarget(last.q, last.a)

\* C5 as stated: after two consecutive vote requests of one user with the same
\* voteType on the same target, the user has no Vote row on the target and the
\* target's tally is what it was before the first request.
C5_ToggleAnyUser ==
  SecondOfTwo =>
    /\ rowsFor(db, last.user, last.q, last.a) = {}
    /\ storedTally(db, last.q, last.a) = last.tally0

\* C5, for a user without a vote on the target: after two consecutive vote
\* requests with the same voteType on the same target by a user who had no
\* Vote row on it before the first, the user has no Vote row on it, the
\* target's tally is its 'up' rows minus its 'down' rows, and it is the tally
\* from before the first request when that one agreed with the rows.
C5_ToggleFromNoVote ==
  (SecondOfTwo /\ last.before0 = 0) =>
    /\ last.out = "removed"
    /\ rowsFor(db, last.user, last.q, last.a) = {}
    /\ storedTally(db, last.q, last.a) = countedTally(db, last.q, last.a)
    /\ last.sync0 => storedTally(db, last.q, last.a) = last.tally0

C5_Toggled ==
  /\ SecondOfTwo /\ last.before0 = 0 /\ last.out = "removed"
  /\ last.sync0 /\ last.tally0 # 0

\* C6: a vote request of a user who has a vote of the other type on the target
\* updates that row: the user has exactly one Vote row on the target before
\* the request, between its statements and after it, and after it the row's
\* voteType is the one cast.
C6_FlipInPlace ==
  (/\ last.op = "vote" /\ OneTarget(last.q, last.a)
   /\ last.before > 0 /\ last.out # "removed") =>
    /\ last.out = "updated"
    /\ last.before = 1
    /\ last.during = 1
    /\ Cardinality(rowsFor(db, last.user, last.q, last.a)) = 1
    /\ \A v \in rowsFor(db, last.user, last.q, last.a) : db.votes[v].voteType = last.vt

C6_Flipped ==
  /\ last.op = "vote" /\ OneTarget(last.q, last.a)
  /\ last.before = 1 /\ last.out = "updated" /\ last.vt = "down" /\ last.a # 0

\* C7: every Vote row has exactly one of questionId and answerId set.
C7_ExactlyOneTarget ==
  \A v \in DOMAIN db.votes : OneTarget(db.votes[v].questionId, db.votes[v].answerId)

\* C8: a vote request that names neither a question nor an answer is answered
\* "invalid" and leaves the database as it was.
C8_NeitherRejected ==
  [][\A u \in UserIds, vt \in VoteTypes :
       PostVote(u, 0, 0, vt) => (db' = db /\ last'.out = "invalid")]_vars

\* C9: when deleteUser(id) has returned, the User row is gone and no Question,
\* Answer, Post or PostComment has authorId = id and no Vote, Notification or
\* PostLike has userId = id.
C9_CascadeComplete ==
  (last.op = "deleteUser" /\ last.out = "ok") =>
    /\ last.target \notin DOMAIN db.users
    /\ ownedBy(db, last.target) = {}

C9_Cascaded ==
  /\ last.op = "deleteUser" /\ last.out = "ok"
  /\ last.owned = {"questions", "answers", "votes", "posts", "postLikes", "postComments"}

\* C11: after two consecutive like requests of a user on a post, the user
\* having had no like on it before the first, the user has no PostLike row on
\* the post, and the post's likes counter and its number of PostLike rows are
\* what they were before the first request.
C11_LikeToggle ==
  (last.op = "likePost" /\ last.twice /\ last.before0 = 0) =>
    /\ last.out = "unliked"
    /\ likesBy(db, last.q, last.user) = {}
    /\ storedLikes(db, last.q) = last.tally0
    /\ Cardinality(likesOf(db, last.q)) = last.rows0

C11_LikeToggled ==
  /\ last.op = "likePost" /\ last.twice /\ last.before0 = 0
  /\ last.out = "unliked" /\ last.rows0 > 0

\* C12: in every state, also while like requests interleave, a user has at
\* most one PostLike row on a post.
C12_OneLikePerPair ==
  \A post \in PostIds, u \in UserIds : Cardinality(likesBy(db, post, u)) <= 1

\* C13: between requests, every Post's likes counter is not negative and is
\* the number of the Post's PostLike rows.
C13_LikesCounter ==
  AllIdle =>
    \A post \in DOMAIN db.posts :
      /\ db.posts[post].likes >= 0
      /\ db.posts[post].likes = Cardinality(likesOf(db, post))

C15_AcceptNotifies ==
  [][(/\ AcceptNotify(1) /\ last'.out = "ok"
      /\ procs[1].a \in DOMAIN db'.answers /\ db'.answers[procs[1].a].isAccepted) =>
        LET new == DOMAIN db'.notifications \ DOMAIN db.notifications
            r == procs[1]
        IN /\ db'.questions[r.q].acceptedAnswerId = r.a
           /\ IF db'.answers[r.a].authorId # r.user
              THEN \E n \in new :
                     /\ new = {n}
                     /\ db'.notifications[n] =
                          [userId |-> db'.answers[r.a].authorId, type |-> "answer_accepted",
                           questionId |-> r.q, answerId |-> r.a]
              ELSE new = {}]_vars

\* C16: getQuestion(id) returns the Question's Answers in the order in which
\* getAnswersByQuestionId(id) returns them: accepted first, then by descending
\* votes, then by ascending creation time.
C16_AnswerOrder ==
  \A q \in DOMAIN db.questions : getQuestionAnswers(db, q) = getAnswersByQuestionId(db, q)

\* C17: every Question that getQuestions({filter: "unanswered"}) returns has
\* answer count 0 in the result, also when answers are created while the call
\* is between its two queries.
C17_UnansweredCountZero ==
  last.op = "listUnanswered" => \A q \in DOMAIN last.res : last.res[q] = 0

\* C18: a read of a question answers not-found only when no Question has the
\* id, and the list of questions is empty only when there is no Question: a
\* failure of the substrate during the read is neither.
C18_AbsenceNotFailure ==
  /\ (last.op = "viewQuestion" /\ last.out = "notFound") =>
        (~last.fault /\ last.q \notin DOMAIN db.questions)
  /\ (last.op = "listQuestions" /\ last.out = "empty") =>
        (~last.fault /\ DOMAIN db.questions = {})

\* C19: once the accept requests in flight have ended, whether completed or
\* failed between two writes, every Answer flagged isAccepted is the one its
\* Question's acceptedAnswerId points to.
C19_AcceptAtomic ==
  AllIdle =>
    \A a \in DOMAIN db.answers :
      db.answers[a].isAccepted => db.questions[db.answers[a].questionId].acceptedAnswerId = a

\* C20: the stored tally of a target can differ from its Vote rows only after
\* vote requests were in flight together: as long as every request started
\* with none in flight, between requests each Question's stored votes equals
\* its 'up' rows minus its 'down' rows.  The state C20_VoteRace is the race:
\* two requests of different users on question 1, both ended, one Vote row
\* each, and a stored tally that differs from the rows.
C20_TallyOffOnlyAfterOverlap ==
  (AllIdle /\ ~last.overlap) =>
    \A q \in DOMAIN db.questions : db.questions[q].votes = countedTally(db, q, 0)

C20_VoteRace ==
  /\ AllIdle /\ started = 2 /\ last.overlap
  /\ \A u \in UserIds : Cardinality(rowsFor(db, u, 1, 0)) = 1
  /\ db.questions[1].votes # countedTally(db, 1, 0)

CascadeStep(k, r, id) ==
  CASE k = 1 -> delAnswersToQuestionsOf(r, id)
    [] k = 2 -> delAnswersOf(r, id)
    [] k = 3 -> delQuestionsOf(r, id)
    [] k = 4 -> delVotesOf(r, id)
    [] k = 5 -> delNotificationsOf(r, id)
    [] k = 6 -> delPostLikesOf(r, id)
    [] k = 7 -> delPostCommentsOf(r, id)
    [] k = 8 -> delPostsOf(r, id)
    [] k = 9 -> delUserRow(r, id)

RECURSIVE CascadeAfter(_, _, _)
CascadeAfter(k, d, id) ==
  IF k = 0 THEN Ok(d) ELSE CascadeStep(k, CascadeAfter(k - 1, d, id), id)

\* C22: when DELETE /api/admin/users/:id fails, it is some statement k of
\* deleteUser that threw: the database is left as statements 1..k-1 made it,
\* with the User row still there and nothing restored.
C22_NoRollback ==
  [][\A u, id \in UserIds :
       (AdminDeleteUser(u, id) /\ last'.out = "error") =>
         /\ id \in DOMAIN db'.users
         /\ \E k \in 1..9 :
              /\ CascadeAfter(k - 1, db, id).ok
              /\ ~CascadeAfter(k, db, id).ok
              /\ db' = CascadeAfter(k - 1, db, id).db]_vars

\* A deleteUser has failed after its first statements deleted the user's
\* answers: the user is still there, the answers are not.
C22_PartlyDeleted ==
  /\ last.op = "deleteUser" /\ last.out = "error"
  /\ "answers" \in last.owned
  /\ "answers" \notin ownedBy(db, last.target)
  /\ last.target \in DOMAIN db.users

\* C23: whatever the interleaving of GET /api/questions/:id requests, each
\* Question's views is the number of requests that were answered with it
\* (no increment is lost), and a request for an id that no Question has
\* changes no views.
C23_ViewsCountRequests ==
  \A q \in DOMAIN db.questions :
    db.questions[q].views = (IF q \in DOMAIN last.res THEN last.res[q] ELSE 0)

\* Two requests were answered with question 1 and counted, and the request
\* that ended last, for an id no Question has, was answered 404.
C23_ViewsCounted ==
  /\ AllIdle
  /\ last.op = "viewQuestion" /\ last.out = "notFound"
  /\ 1 \in DOMAIN last.res /\ last.res[1] = 2
  /\ db.questions[1].views = 2

\* C24: a request by which admin X would lose admin status or be deleted
\* (PUT /api/admin/users/X with a body that clears isAdmin, POST
\* /api/admin/users/X/remove-admin, DELETE /api/admin/users/X, sent by X)
\* is answered 400 and changes neither the User row nor the AdminLog.
C24_NoSelfDemotion ==
  [][\A u \in UserIds :
       (\/ \E body \in {"false", "null"} : AdminUpdateUser(u, u, body)
        \/ RemoveAdmin(u, u)
        \/ AdminDeleteUserWithin(u, u, MaxAdminActions))
       => /\ last'.out = "invalid"
          /\ db' = db]_vars

\* C25: the AdminLog only grows: whatever a request does, every AdminLog row
\* that was there before it is there after it with the same fields,
\* deleteUser of the admin who wrote the rows included.
C25_AdminLogAppendOnly ==
  [][\A g \in DOMAIN db.adminLogs :
       g \in DOMAIN db'.adminLogs /\ db'.adminLogs[g] = db.adminLogs[g]]_vars

\* An admin has asked to delete the admin who wrote an entry of the log.
C25_LogWriterDeleteAsked ==
  /\ last.op = "deleteUser" /\ last.out = "error"
  /\ \E g \in DOMAIN db.adminLogs : db.adminLogs[g].adminId = last.target

\* C26: unlikePost decrements the Post's likes only if its DELETE removed a
\* PostLike row: when it removed none, the counter is left as it was.
C26_DecrementOnlyIfDeleted ==
  [][\A p \in Procs :
       (UnlikeDecrement(p) /\ procs[p].snap = EmptyTable) => db'.posts = db.posts]_vars

\* C27: the admin user routes never remove the last admin: there is always
\* a user with isAdmin = true, requests of two admins that interleave between
\* the isAdmin middleware and the mutation included.
C27_AdminRemains == \E u \in DOMAIN db.users : db.users[u].isAdmin

\* The session user of the request a step belongs to.
Actor == IF procs[1].pc # "idle" THEN procs[1].user ELSE last'.user

\* C28: through the author routes a Question or Post is changed or deleted
\* only by a request of its author, and an Answer becomes accepted only by a
\* request of the author of its Question; a request that is answered 403
\* changes nothing, Notifications included.
C28_OwnerOnly ==
  [][/\ \A q \in DOMAIN db.questions :
          (q \notin DOMAIN db'.questions \/ db'.questions[q] # db.questions[q])
            => Actor = db.questions[q].authorId
     /\ \A post \in DOMAIN db.posts :
          (post \notin DOMAIN db'.posts \/ db'.posts[post] # db.posts[post])
            => Actor = db.posts[post].authorId
     /\ \A u \in UserIds, q \in DOMAIN db.questions, author \in 0..NUsers :
          (UpdateQuestion(u, q, author) /\ last'.out = "ok") => db.questions[q].authorId = u
     /\ \A u \in UserIds, post \in DOMAIN db.posts, author \in 0..NUsers :
          (UpdatePost(u, post, author) /\ last'.out = "ok") => db.posts[post].authorId = u
     /\ \A a \in DOMAIN db.answers :
          (~db.answers[a].isAccepted /\ a \in DOMAIN db'.answers /\ db'.answers[a].isAccepted)
            => /\ db.answers[a].questionId \in DOMAIN db.questions
               /\ Actor = db.questions[db.answers[a].questionId].authorId
     /\ (AllIdle' /\ last'.out = "forbidden") => db' = db]_vars

\* C29: PUT /api/answers/:id answers 404 when the Answer does not exist, 403
\* with no change when it exists and the user is not its author, and updates
\* it (200) when the user is its author.
C29_UpdateAnswerCases ==
  [][\A u \in UserIds, a \in AnswerIds :
       UpdateAnswer(u, a) =>
         /\ a \notin DOMAIN db.answers => last'.out = "notFound"
         /\ (a \in DOMAIN db.answers /\ db.answers[a].authorId # u)
              => (last'.out = "forbidden" /\ db' = db)
         /\ (a \in DOMAIN db.answers /\ db.answers[a].authorId = u)
              => last'.out = "ok"]_vars

\* C30: ownership is fixed at creation: no author-route request changes the
\* authorId of an existing Question or Post, whatever its body, and a
\* Question or Post that a request creates has the session user as authorId.
C30_AuthorFixed ==
  [][/\ \A q \in DOMAIN db.questions \cap DOMAIN db'.questions :
          db'.questions[q].authorId = db.questions[q].authorId
     /\ \A post \in DOMAIN db.posts \cap DOMAIN db'.posts :
          db'.posts[post].authorId = db.posts[post].authorId
     /\ \A u \in UserIds :
          AskQuestion(u) => \A q \in DOMAIN db'.questions \ DOMAIN db.questions :
                               db'.questions[q].authorId = u
     /\ \A u \in UserIds :
          CreatePost(u) => \A post \in DOMAIN db'.posts \ DOMAIN db.posts :
                             db'.posts[post].authorId = u]_vars

====
